---- MODULE Spec2Model ----
(***************************************************************************)
(* A model of the tts command line tool (src/main.go): the chunker         *)
(* (readFileData, calculateChunkSize, splitIntoChunks, addBufferText) and  *)
(* the run pipeline (run, checkPrerequisites, readInputFile,               *)
(* promptForConfirmation, processChunks, processChunk, tts,                *)
(* appendToTextFile, combineFiles, cleanupFiles).                          *)
(*                                                                         *)
(* Representation of Go values                                             *)
(*   - A Go string holding text is the sequence of the units Go's UTF-8    *)
(*     decoder sees in it: a unit is either a validly encoded code point   *)
(*     (written as a one-character string such as "a" or " ", or RuneError *)
(*     for the encoded U+FFFD) or BadByte, one byte that is not valid      *)
(*     UTF-8.  A []rune is a sequence of code points.  Both are stored     *)
(*     run-length encoded, as a sequence of runs [c |-> unit, n |-> count] *)
(*     in normal form (every n >= 1, adjacent runs differ in c), so that   *)
(*     texts longer than api_max_chars stay small and equality of the      *)
(*     encodings is equality of the texts.                                 *)
(*   - A file path, a formatted file name and the manifest's content are   *)
(*     plain sequences of one-character strings.                           *)
(*   - An error is the string its Error() method returns.                  *)
(***************************************************************************)
EXTENDS Integers, Sequences, FiniteSets, TLC

(***************************************************************************)
(* Bounds of the model.                                                    *)
(***************************************************************************)
\* longest text, in units, of the exhaustively enumerated small texts
MaxLen == 4
\* largest chunkSize handed to splitIntoChunks with a small text
MaxChunkSize == 3
\* number of runs of a long (file sized) text
MaxRuns == 3
\* the time, in seconds, up to which a run is followed on the clock
MaxTime == 120
\* largest number of arguments handed to mp3concat
MaxArgs == 4

(***************************************************************************)
(* Program constants.                                                      *)
(***************************************************************************)
api_max_chars == 4096

\* the []rune conversion's replacement for a byte that is not valid UTF-8
RuneError == "U+FFFD"
\* a byte (0xFF) that is not valid UTF-8
BadByte == "0xFF"

(***************************************************************************)
(* Run-length encoded sequences.                                           *)
(***************************************************************************)
Run(c, n) == [c |-> c, n |-> n]

\* s + t on strings: the runs of s then those of t, the last run of s and the
\* first of t made one when they hold the same unit
Cat(s, t) ==
  IF s = <<>> THEN t
  ELSE IF t = <<>> THEN s
  ELSE IF s[Len(s)].c = t[1].c
         THEN SubSeq(s, 1, Len(s) - 1) \o <<Run(t[1].c, s[Len(s)].n + t[1].n)>> \o Tail(t)
  ELSE s \o t

RECURSIVE Norm(_)
\* the normal form of a sequence of runs: no empty run, no two adjacent
\* runs of the same unit
Norm(t) ==
  IF Len(t) = 0 THEN <<>>
  ELSE IF Len(t) = 1 THEN (IF t[1].n = 0 THEN <<>> ELSE t)
  ELSE Cat(Norm(SubSeq(t, 1, Len(t) \div 2)), Norm(SubSeq(t, Len(t) \div 2 + 1, Len(t))))

\* the text whose units are the elements of the plain sequence s
FromSeq(s) == Norm([i \in DOMAIN s |-> Run(s[i], 1)])

RECURSIVE RuneCount(_)
\* len(runes), utf8.RuneCountInString(s): an invalid byte counts as one rune
RuneCount(t) == IF t = <<>> THEN 0 ELSE t[1].n + RuneCount(Tail(t))

RECURSIVE RuneAt(_, _)
\* runes[i], i counted from 0, for 0 <= i < len(runes)
RuneAt(t, i) == IF i < t[1].n THEN t[1].c ELSE RuneAt(Tail(t), i - t[1].n)

RECURSIVE RunStart(_, _)
\* the index (from 0) of the first element of the run that holds index i
RunStart(t, i) == IF i < t[1].n THEN 0 ELSE t[1].n + RunStart(Tail(t), i - t[1].n)

RECURSIVE Take(_, _)
\* runes[:k], for 0 <= k <= len(runes)
Take(t, k) ==
  IF k = 0 \/ t = <<>> THEN <<>>
  ELSE IF k < t[1].n THEN <<Run(t[1].c, k)>>
  ELSE <<t[1]>> \o Take(Tail(t), k - t[1].n)

RECURSIVE Drop(_, _)
\* runes[k:], for 0 <= k <= len(runes)
Drop(t, k) ==
  IF k = 0 \/ t = <<>> THEN t
  ELSE IF k < t[1].n THEN <<Run(t[1].c, t[1].n - k)>> \o Tail(t)
  ELSE Drop(Tail(t), k - t[1].n)

\* []rune(s): every code point of s, each invalid byte replaced by U+FFFD
ToRunes(s) ==
  Norm([i \in DOMAIN s |-> Run(IF s[i].c = BadByte THEN RuneError ELSE s[i].c, s[i].n)])

\* string(runes): every code point encoded; the result is valid UTF-8
ToStr(runes) == runes

\* unicode.IsSpace on the code points of the model's alphabet
IsSpace(r) == r \in {" ", "\n", "\t"}

(***************************************************************************)
(* The chunker: src/main.go, readFileData .. addBufferText.                *)
(***************************************************************************)
\* the literals of calculateChunkSize and addBufferText
startText == FromSeq(<<"B", "e", "g", "i", "n", " ", "T", "e", "x", "t", "\n">>)
endText == FromSeq(<<"\n", "E", "n", "d", " ", "T", "e", "x", "t">>)

\* mutant: the framing is not reserved
calculateChunkSize_NoReserve(bufferText) == api_max_chars

calculateChunkSize(bufferText) ==
  IF bufferText
    THEN api_max_chars - (RuneCount(startText) + RuneCount(endText))
    ELSE api_max_chars

RECURSIVE ScanBack(_, _)
\* the inner loop of splitIntoChunks:
\*   for ; splitIndex > 0 && !unicode.IsSpace(inputRunes[splitIndex]); splitIndex-- {}
\* run over a whole run of equal code points at a time: from an index inside
\* a run of non-space code points that starts at s the loop steps down to
\* s - 1, or stops at 0 when s = 0.
ScanBack(inputRunes, splitIndex) ==
  IF splitIndex > 0 /\ ~IsSpace(RuneAt(inputRunes, splitIndex))
    THEN LET s == RunStart(inputRunes, splitIndex)
         IN  ScanBack(inputRunes, IF s = 0 THEN 0 ELSE s - 1)
    ELSE splitIndex

\* mutant: the scan starts one index too low
SplitIndex_ScanFromBelow(inputRunes, chunkSize) ==
  LET splitIndex == ScanBack(inputRunes, chunkSize - 1)
  IN  IF splitIndex = 0 THEN chunkSize ELSE splitIndex

\* a splitIndex without the forced split: 0 when the scan finds no whitespace
SplitIndex_NoForcedSplit(inputRunes, chunkSize) == ScanBack(inputRunes, chunkSize)

\* the value of splitIndex at the append of a non-final chunk
SplitIndex(inputRunes, chunkSize) ==
  LET splitIndex == ScanBack(inputRunes, chunkSize)
  IN  IF splitIndex = 0 THEN chunkSize ELSE splitIndex

\* mutant: the code point at the boundary is skipped
Remainder_SkipBoundary(inputRunes, splitIndex) == Drop(inputRunes, splitIndex + 1)

\* what is left of inputRunes after a non-final chunk: inputRunes[splitIndex:]
Remainder(inputRunes, splitIndex) == Drop(inputRunes, splitIndex)

\* one iteration of the outer loop of splitIntoChunks, entered with
\* len(inputRunes) > 0; brk says that the iteration ended in break
LoopBody(chunks, inputRunes, chunkSize) ==
  IF RuneCount(inputRunes) <= chunkSize
    THEN [chunks |-> Append(chunks, ToStr(inputRunes)),
          inputRunes |-> inputRunes, brk |-> TRUE]
    ELSE LET splitIndex == SplitIndex(inputRunes, chunkSize)
         IN  [chunks |-> Append(chunks, ToStr(Take(inputRunes, splitIndex))),
              inputRunes |-> Remainder(inputRunes, splitIndex), brk |-> FALSE]

RECURSIVE SplitLoop(_, _, _)
SplitLoop(chunks, inputRunes, chunkSize) ==
  IF ~(RuneCount(inputRunes) > 0) THEN chunks
  ELSE LET b == LoopBody(chunks, inputRunes, chunkSize)
       IN  IF b.brk THEN b.chunks ELSE SplitLoop(b.chunks, b.inputRunes, chunkSize)

splitIntoChunks(text, chunkSize) == SplitLoop(<<>>, ToRunes(text), chunkSize)

\* mutant: prologue and epilogue swapped
addBufferText_Swapped(chunks) ==
  [i \in DOMAIN chunks |-> Cat(Cat(endText, chunks[i]), startText)]

addBufferText(chunks) ==
  [i \in DOMAIN chunks |-> Cat(Cat(startText, chunks[i]), endText)]

\* a readFileData that gives one empty chunk (framed, with buffering) for an
\* empty text
readFileData_EmptyChunk(inputContent, bufferText) ==
  LET split == splitIntoChunks(inputContent, calculateChunkSize(bufferText))
      parts == IF split = <<>> THEN << <<>> >> ELSE split
  IN  IF bufferText THEN addBufferText(parts) ELSE parts

\* readFileData on a reader that delivers inputContent without an error
readFileData(inputContent, bufferText) ==
  LET chunkSize == calculateChunkSize(bufferText)
      chunks == splitIntoChunks(inputContent, chunkSize)
  IN  IF bufferText THEN addBufferText(chunks) ELSE chunks

(***************************************************************************)
(* File names and messages: plain sequences of one-character strings.      *)
(***************************************************************************)
\* os.IsPathSeparator
IsPathSeparator(c) == c = "/"

RECURSIVE ExtFrom(_, _)
\* the loop of filepath.Ext, at index i (from 1)
ExtFrom(path, i) ==
  IF i >= 1 /\ ~IsPathSeparator(path[i])
    THEN IF path[i] = "." THEN SubSeq(path, i, Len(path)) ELSE ExtFrom(path, i - 1)
    ELSE <<>>

\* filepath.Ext(path): the suffix from the last dot of the last path element
Ext(path) == ExtFrom(path, Len(path))

\* strings.HasSuffix
HasSuffix(s, suffix) ==
  /\ Len(suffix) <= Len(s)
  /\ SubSeq(s, Len(s) - Len(suffix) + 1, Len(s)) = suffix

\* strings.TrimSuffix
TrimSuffix(s, suffix) ==
  IF HasSuffix(s, suffix) THEN SubSeq(s, 1, Len(s) - Len(suffix)) ELSE s

Digit(d) == CASE d = 0 -> "0" [] d = 1 -> "1" [] d = 2 -> "2" [] d = 3 -> "3"
              [] d = 4 -> "4" [] d = 5 -> "5" [] d = 6 -> "6" [] d = 7 -> "7"
              [] d = 8 -> "8" [] d = 9 -> "9"

RECURSIVE Itoa(_)
\* the verb %d of fmt, for n >= 0
Itoa(n) == IF n < 10 THEN <<Digit(n)>> ELSE Itoa(n \div 10) \o <<Digit(n % 10)>>

\* strings.TrimSuffix(flags.OutputFile, filepath.Ext(flags.OutputFile))
BaseName(OutputFile) == TrimSuffix(OutputFile, Ext(OutputFile))

\* a manifest name that keeps the extension of the output path
ManifestName_KeepExt(OutputFile) == OutputFile \o <<".", "t", "x", "t">>

\* fmt.Sprintf("%s.txt", base)
ManifestName(OutputFile) == BaseName(OutputFile) \o <<".", "t", "x", "t">>

\* fmt.Sprintf("%s_%d.%s", base, i+1, flags.FormatOption), i counted from 0
ArtifactName(OutputFile, i, FormatOption) ==
  BaseName(OutputFile) \o <<"_">> \o Itoa(i + 1) \o <<".">> \o FormatOption

\* fmt.Sprintf("file '%s'\n", outputFileName)
ManifestLine(outputFileName) ==
  <<"f", "i", "l", "e", " ", "'">> \o outputFileName \o <<"'", "\n">>

RECURSIVE Flat(_)
\* a plain sequence of characters as one message string
Flat(s) == IF s = <<>> THEN "" ELSE Head(s) \o Flat(Tail(s))

RECURSIVE Rep(_, _)
Rep(c, n) == IF n = 0 THEN "" ELSE c \o Rep(c, n - 1)

RECURSIVE Shown(_)
\* the verb %s of fmt on a (short) body
Shown(t) == IF t = <<>> THEN "" ELSE Rep(t[1].c, t[1].n) \o Shown(Tail(t))

(***************************************************************************)
(* State.                                                                  *)
(***************************************************************************)
VARIABLES
  \* a call of the chunker on its own (as the tests make it)
  call,          \* the function called: "splitIntoChunks", "readFileData", "none"
  text,          \* its text argument (the content the reader delivers)
  chunkSize,     \* its chunkSize argument; readFileData computes it on entry
  bufferText,    \* readFileData's bufferText argument
  inputRunes,    \* splitIntoChunks's inputRunes
  splitChunks,   \* splitIntoChunks's chunks
  cpc,           \* position in the call: "entry", "loop", "after", "return"
  result,        \* the value returned
  \* a run of the tool
  flags,         \* the Flags parseFlags returns
  ffmpegInPath,  \* whether exec.LookPath finds ffmpeg
  config,        \* run's Config
  configFile,    \* the config file: "missing" or the key stored in it
  keyPrompts,    \* number of prompts for the API key
  disk,          \* the files of the working directory: path -> content
  written,       \* the paths the run has created or opened for writing
  removed,       \* the calls of os.Remove, in order: the file and the error
  cleanupErr,    \* what cleanupFiles returned (combineFiles logs it)
  failed,        \* the operations of the run that have failed
  chunks,        \* run's chunks
  createdFiles,  \* run's createdFiles, the ledger
  idx,           \* processChunks's loop index i
  outputFileName,\* processChunks's outputFileName
  textFileName,  \* processChunks's textFileName
  requests,      \* the requests handed to the transport, in order
  responses,     \* what the transport returned for each
  tickPending,   \* a tick waits in the rate limiter's channel
  timed,         \* the run is followed on the clock (else a tick may come at any moment)
  now,           \* the clock, in seconds since run began
  nextTick,      \* the time of the ticker's next tick
  permits,       \* the times at which processChunks received a tick
  confirmPrompts,\* number of confirmation prompts shown
  answer,        \* the line typed at the confirmation prompt, until dispatch begins
  inputRead,     \* the input file has been opened
  ffmpegRuns,    \* number of runs of the external tool
  pc,            \* position in run
  err,           \* what run returned, once pc = "done"
  \* a start of mp3concat
  args,          \* os.Args[1:]
  mp3Files,      \* mp3concat's files
  fileCount,     \* mp3concat's fileCount
  argIdx,        \* number of arguments parseArgs has gone through
  stdout,        \* the lines printed
  mpc,           \* position in mp3concat: "parseArgs", "init", "main", "exit", "panic", "none"
  panicValue     \* the value of the panic, once mpc = "panic"

chunkerVars == <<call, text, chunkSize, bufferText, inputRunes, splitChunks, cpc, result>>
envVars == <<flags, ffmpegInPath>>
cfgVars == <<config, configFile, keyPrompts>>
fsVars == <<disk, written, removed, cleanupErr>>
locVars == <<chunks, createdFiles, idx, outputFileName, textFileName>>
netVars == <<requests, responses>>
uiVars == <<confirmPrompts, answer, inputRead, ffmpegRuns>>
gateVars == <<tickPending, timed, now, nextTick, permits>>
runVars == <<envVars, cfgVars, fsVars, locVars, netVars, gateVars, uiVars, failed, pc, err>>

concatVars == <<args, mp3Files, fileCount, argIdx, stdout, mpc, panicValue>>

vars == <<chunkerVars, runVars, concatVars>>

(***************************************************************************)
(* The inputs of a chunker call.                                           *)
(***************************************************************************)
\* units of the small texts: two letters, a space and an invalid byte
Alphabet == {"a", "b", " ", BadByte}

SmallTexts == {FromSeq(s) : s \in UNION {[1..n -> Alphabet] : n \in 0..MaxLen}}

\* units and run lengths of the long texts: the lengths around both budgets
LongUnits == {"a", " ", BadByte}
LongLens == {0, 1, api_max_chars - 20, api_max_chars}

FileTexts ==
  {Norm([i \in 1..MaxRuns |-> Run(f[i][1], f[i][2])]) :
     f \in [1..MaxRuns -> LongUnits \X LongLens]}

\* the nil error
Nil == "<nil>"

\* no run of the tool is under way
NoRun ==
  /\ flags = [InputFile |-> <<>>, OutputFile |-> <<>>]
  /\ ffmpegInPath = FALSE
  /\ config = [OpenAIAPIKey |-> "", rateLimiter |-> FALSE, configPath |-> ""]
  /\ configFile = "missing"
  /\ keyPrompts = 0
  /\ disk = <<>>
  /\ written = {}
  /\ removed = <<>>
  /\ cleanupErr = Nil
  /\ failed = {}
  /\ chunks = <<>>
  /\ createdFiles = <<>>
  /\ idx = 0
  /\ outputFileName = <<>>
  /\ textFileName = <<>>
  /\ requests = <<>>
  /\ responses = <<>>
  /\ tickPending = FALSE
  /\ timed = FALSE
  /\ now = 0
  /\ nextTick = 0
  /\ permits = <<>>
  /\ confirmPrompts = 0
  /\ answer = <<>>
  /\ inputRead = FALSE
  /\ ffmpegRuns = 0
  /\ pc = "none"
  /\ err = "none"

\* mp3concat is not started
NoConcat ==
  /\ args = <<>>
  /\ mp3Files = <<>>
  /\ fileCount = 0
  /\ argIdx = 0
  /\ stdout = <<>>
  /\ mpc = "none"
  /\ panicValue = "none"

\* no call of the chunker on its own is under way
NoCall ==
  /\ call = "none"
  /\ text = <<>>
  /\ chunkSize = 0
  /\ bufferText = FALSE
  /\ inputRunes = <<>>
  /\ splitChunks = <<>>
  /\ cpc = "none"
  /\ result = <<>>

InitChunker ==
  /\ \/ /\ call = "splitIntoChunks"
        /\ text \in SmallTexts
        /\ chunkSize \in 1..MaxChunkSize
        /\ bufferText = FALSE
     \/ /\ call = "readFileData"
        /\ text \in FileTexts
        /\ chunkSize = 0
        /\ bufferText \in BOOLEAN
  /\ inputRunes = <<>>
  /\ splitChunks = <<>>
  /\ cpc = "entry"
  /\ result = <<>>
  /\ NoRun
  /\ NoConcat

(***************************************************************************)
(* The steps of a chunker call.                                            *)
(***************************************************************************)
\* readFileData up to the call of splitIntoChunks, and splitIntoChunks up to
\* its loop
Enter ==
  /\ cpc = "entry"
  /\ chunkSize' = IF call = "readFileData" THEN calculateChunkSize(bufferText)
                                           ELSE chunkSize
  /\ inputRunes' = ToRunes(text)
  /\ splitChunks' = <<>>
  /\ cpc' = "loop"
  /\ UNCHANGED <<call, text, bufferText, result, runVars, concatVars>>

\* one iteration of the loop of splitIntoChunks
LoopIter ==
  /\ cpc = "loop"
  /\ RuneCount(inputRunes) > 0
  /\ LET b == LoopBody(splitChunks, inputRunes, chunkSize)
     IN  /\ splitChunks' = b.chunks
         /\ inputRunes' = b.inputRunes
         /\ cpc' = IF b.brk THEN "after" ELSE "loop"
  /\ UNCHANGED <<call, text, chunkSize, bufferText, result, runVars, concatVars>>

\* the loop condition fails
LoopExit ==
  /\ cpc = "loop"
  /\ ~(RuneCount(inputRunes) > 0)
  /\ cpc' = "after"
  /\ UNCHANGED <<call, text, chunkSize, bufferText, inputRunes, splitChunks, result, runVars, concatVars>>

\* splitIntoChunks returns; readFileData frames the chunks and returns
Return ==
  /\ cpc = "after"
  /\ result' = IF call = "readFileData" /\ bufferText
                 THEN addBufferText(splitChunks) ELSE splitChunks
  /\ cpc' = "return"
  /\ UNCHANGED <<call, text, chunkSize, bufferText, inputRunes, splitChunks, runVars, concatVars>>

(***************************************************************************)
(* A run of the tool: its inputs.                                          *)
(***************************************************************************)
InputFiles == {<<>>, <<"i", ".", "m", "d">>, <<"o", ".", "t", "x", "t">>}
OutputFiles ==
  {<<>>, <<"o", ".", "m", "p", "3">>, <<"o", ".", "t", "x", "t">>, <<"d", ".", "d", "/", "o">>}
\* -v, -m, -fmt, -s: the defaults, and other values for all four
OptionSets ==
  {[VoiceOption |-> "nova", ModelOption |-> "tts-1-hd",
    FormatOption |-> <<"m", "p", "3">>, SpeedOption |-> "1.0"],
   [VoiceOption |-> "alloy", ModelOption |-> "tts-1",
    FormatOption |-> <<"w", "a", "v">>, SpeedOption |-> "1.5"]}
RateLimits == {0, 2}
\* -help, -configure, -version: none of them, each alone, the first two together
Modes == {<<FALSE, FALSE, FALSE>>, <<TRUE, FALSE, FALSE>>, <<FALSE, TRUE, FALSE>>,
          <<FALSE, FALSE, TRUE>>, <<TRUE, TRUE, FALSE>>}

FlagSets ==
  {[InputFile |-> in, OutputFile |-> out, VoiceOption |-> opt.VoiceOption,
    ModelOption |-> opt.ModelOption, FormatOption |-> opt.FormatOption,
    SpeedOption |-> opt.SpeedOption,
    HelpFlag |-> m[1], ConfigureMode |-> m[2], VersionFlag |-> m[3],
    BufferTextFlag |-> b, RateLimit |-> r, CombineFiles |-> c] :
     in \in InputFiles, out \in OutputFiles, opt \in OptionSets, m \in Modes,
     b \in BOOLEAN, r \in RateLimits, c \in BOOLEAN}

\* contents of the input file: empty, one chunk, two chunks split at a
\* whitespace, three chunks of a text without whitespace
InputTexts ==
  {<<>>,
   FromSeq(<<"a", " ", "b">>),
   <<Run("a", api_max_chars), Run(" ", 1), Run("b", 10)>>,
   <<Run("a", 2 * api_max_chars + 5)>>}

\* what the transport is scripted to return: the audio of the i-th request
\* (from 0), a different one for each, and the responses of a failure
AudioBody(i) == <<Run("A", i + 1)>>
ErrorResponses ==
  {[StatusCode |-> 400, Body |-> FromSeq(<<"B", "a", "d">>)],
   [StatusCode |-> 500, Body |-> <<>>]}

\* lines typed at the confirmation prompt
AnswerLines ==
  {<<"y">>, <<"Y">>, <<" ", "y", " ">>, <<"n">>, <<>>, <<"y", "e", "s">>, <<"y", " ", "n">>}

oldAudio == <<Run("O", 3)>>

\* the files an earlier run on the same output path leaves when it stopped at
\* the request of its second chunk (with -c), after a still earlier run of
\* one chunk: the output file, the manifest with two lines, the first
\* artifact, the second artifact created and empty
StaleFiles(f) ==
  (ManifestName(f.OutputFile) :>
     FromSeq(ManifestLine(ArtifactName(f.OutputFile, 0, f.FormatOption))
             \o ManifestLine(ArtifactName(f.OutputFile, 1, f.FormatOption))))
  @@ (ArtifactName(f.OutputFile, 0, f.FormatOption) :> oldAudio)
  @@ (ArtifactName(f.OutputFile, 1, f.FormatOption) :> <<>>)
  @@ (f.OutputFile :> oldAudio)

\* run is entered: nothing is configured, read, sent or written yet
RunEntry ==
  /\ config = [OpenAIAPIKey |-> "", rateLimiter |-> FALSE, configPath |-> ""]
  /\ keyPrompts = 0
  /\ written = {}
  /\ removed = <<>>
  /\ cleanupErr = Nil
  /\ failed = {}
  /\ chunks = <<>>
  /\ createdFiles = <<>>
  /\ idx = 0
  /\ outputFileName = <<>>
  /\ textFileName = <<>>
  /\ requests = <<>>
  /\ responses = <<>>
  /\ tickPending = FALSE
  /\ now = 0
  /\ nextTick = 0
  /\ permits = <<>>
  /\ confirmPrompts = 0
  /\ answer = <<>>
  /\ inputRead = FALSE
  /\ ffmpegRuns = 0
  /\ pc = "configure"
  /\ err = "none"
  /\ NoCall
  /\ NoConcat

InitRun ==
  /\ flags \in FlagSets
  /\ ffmpegInPath \in BOOLEAN
  /\ configFile \in {"missing", "sk-file", ""}
  /\ \E stale \in BOOLEAN, present \in BOOLEAN, content \in InputTexts :
       disk = (IF present /\ flags.InputFile # <<>>
                 THEN flags.InputFile :> content ELSE <<>>)
              @@ (IF stale /\ flags.OutputFile # <<>> THEN StaleFiles(flags) ELSE <<>>)
  /\ timed = FALSE
  /\ RunEntry

\* time.Minute.  A Duration is counted in seconds here; the code counts it
\* in nanoseconds, where time.Minute is 60,000,000,000.
Minute == 60

\* a rate limit above the number of units of a minute (in the code, where the
\* unit is the nanosecond, the rate limits from 60,000,000,001 on)
HugeRateLimit == Minute + 1

\* the rate limits of the runs followed on the clock: negative, none, two a
\* minute, more than a minute has units
TimedRateLimits == {-1, 0, 2, HugeRateLimit}

\* the runs followed on the clock: tts -f i.md -o o.mp3 [-r N] [-c], with a
\* stored key and ffmpeg installed
InitTimed ==
  /\ flags \in {[InputFile |-> <<"i", ".", "m", "d">>,
                  OutputFile |-> <<"o", ".", "m", "p", "3">>, VoiceOption |-> "nova",
                  ModelOption |-> "tts-1-hd", FormatOption |-> <<"m", "p", "3">>,
                  SpeedOption |-> "1.0", HelpFlag |-> FALSE, ConfigureMode |-> FALSE,
                  VersionFlag |-> FALSE, BufferTextFlag |-> FALSE, RateLimit |-> r,
                  CombineFiles |-> c] : r \in TimedRateLimits, c \in BOOLEAN}
  /\ ffmpegInPath = TRUE
  /\ configFile = "sk-file"
  /\ \E content \in InputTexts : disk = (flags.InputFile :> content)
  /\ timed = TRUE
  /\ RunEntry

(***************************************************************************)
(* A run of the tool: its steps.                                           *)
(***************************************************************************)
\* a run that goes on to the request when os.Create has failed
Returns_UnlessCreate(e) == pc' = (IF pc = "processChunk" THEN "tts" ELSE "done") /\ err' = e

\* run returns e
Returns(e) == pc' = "done" /\ err' = e

\* the operation op fails in this step
Fails(op) == failed' = failed \cup {op}

Exists(path) == path \in DOMAIN disk

\* the file at path with content c, the other files kept
WithFile(d, path, c) == (path :> c) @@ d

\* the files but the one at path
WithoutFile(d, path) == [q \in (DOMAIN d) \ {path} |-> d[q]]

\* writeNewConfig: the prompt, Scanln and os.WriteFile, with the outcomes the
\* environment decides; the key, the file and the error it leaves
writeNewConfig(scanOk, writeOk) ==
  IF ~scanOk
    THEN [key |-> config.OpenAIAPIKey, file |-> configFile, failed |-> {"fmt.Scanln"},
          err |-> "unable to read API key: unexpected newline"]
  ELSE IF ~writeOk
    THEN [key |-> "sk-typed", file |-> configFile, failed |-> {"os.WriteFile"},
          err |-> "unable to write config file: EACCES"]
  ELSE [key |-> "sk-typed", file |-> "sk-typed", failed |-> {}, err |-> Nil]

\* the steps of the clock
ClockStep == Minute \div 4

\* time.Minute / time.Duration(ratelimit), the division of integers: 0 for a
\* rate limit above the number of units of a minute
Interval(ratelimit) == Minute \div ratelimit

\* time.Tick(d) returns a channel for d > 0, and nil for d <= 0
timeTick(d) == d > 0

\* configure: if ratelimit > 0, c.rateLimiter is what time.Tick returns (not
\* nil, that is)
HasTicker(ratelimit) == ratelimit > 0 /\ timeTick(Interval(ratelimit))

\* a loop that receives from the ticker for every rate limit but 0
Waits_NonZero == flags.RateLimit # 0

\* processChunks: if flags.RateLimit > 0 (the loop receives from the ticker)
Waits == flags.RateLimit > 0

\* run: config.configure(flags.RateLimit)
Configure ==
  /\ pc = "configure"
  /\ \/ \* getConfigPath fails
        /\ Returns("unable to configure: unable to get config path: "
                   \o "unable to get user home directory: $HOME is not defined")
        /\ Fails("os.UserHomeDir")
        /\ UNCHANGED cfgVars
     \/ \* the config file does not exist: writeNewConfig
        /\ configFile = "missing"
        /\ \E scanOk \in BOOLEAN, writeOk \in BOOLEAN :
             LET w == writeNewConfig(scanOk, writeOk)
             IN  /\ keyPrompts' = keyPrompts + 1
                 /\ configFile' = w.file
                 /\ failed' = failed \cup w.failed
                 /\ config' = [OpenAIAPIKey |-> w.key,
                               rateLimiter |-> (w.err = Nil /\ HasTicker(flags.RateLimit)),
                               configPath |-> "~/.cli-tools/tts.config"]
                 /\ IF w.err = Nil
                      THEN pc' = "handleFlags" /\ err' = err
                      ELSE Returns("unable to configure: " \o w.err)
     \/ \* the config file exists: readConfig
        /\ configFile # "missing"
        /\ \/ /\ Returns("unable to configure: unable to open config file: EACCES")
              /\ Fails("os.Open")
              /\ config' = [config EXCEPT !.configPath = "~/.cli-tools/tts.config"]
              /\ UNCHANGED <<configFile, keyPrompts>>
           \/ /\ configFile # ""
              /\ config' = [OpenAIAPIKey |-> configFile,
                            rateLimiter |-> HasTicker(flags.RateLimit),
                            configPath |-> "~/.cli-tools/tts.config"]
              /\ pc' = "handleFlags" /\ err' = err
              /\ UNCHANGED <<configFile, keyPrompts, failed>>
           \/ \* no key stored: writeNewConfig, its error dropped
              /\ configFile = ""
              /\ \E scanOk \in BOOLEAN, writeOk \in BOOLEAN :
                   LET w == writeNewConfig(scanOk, writeOk)
                   IN  /\ keyPrompts' = keyPrompts + 1
                       /\ configFile' = w.file
                       /\ failed' = failed \cup w.failed
                       /\ config' = [OpenAIAPIKey |-> w.key,
                                     rateLimiter |-> HasTicker(flags.RateLimit),
                                     configPath |-> "~/.cli-tools/tts.config"]
              /\ pc' = "handleFlags" /\ err' = err
  /\ nextTick' = IF config'.rateLimiter THEN now + Interval(flags.RateLimit) ELSE nextTick
  /\ UNCHANGED <<concatVars, chunkerVars, envVars, fsVars, locVars, netVars, uiVars,
                 tickPending, timed, now, permits>>

\* run: handleFlags(flags, &config)
HandleFlags ==
  /\ pc = "handleFlags"
  /\ \/ /\ flags.HelpFlag
        /\ Returns(Nil)
        /\ UNCHANGED <<cfgVars, failed>>
     \/ /\ ~flags.HelpFlag /\ flags.ConfigureMode
        /\ \E scanOk \in BOOLEAN, writeOk \in BOOLEAN :
             LET w == writeNewConfig(scanOk, writeOk)
             IN  /\ keyPrompts' = keyPrompts + 1
                 /\ configFile' = w.file
                 /\ failed' = failed \cup w.failed
                 /\ config' = [config EXCEPT !.OpenAIAPIKey = w.key]
        /\ Returns(Nil)
     \/ /\ ~flags.HelpFlag /\ ~flags.ConfigureMode /\ flags.VersionFlag
        /\ Returns(Nil)
        /\ UNCHANGED <<cfgVars, failed>>
     \/ /\ ~flags.HelpFlag /\ ~flags.ConfigureMode /\ ~flags.VersionFlag
        /\ IF flags.InputFile = <<>> \/ flags.OutputFile = <<>>
             THEN Returns("unable to handle flags: input and output files must be "
                          \o "specified. Usage: tts -f filename.md -o filename.mp3")
             ELSE pc' = "checkPrerequisites" /\ err' = err
        /\ UNCHANGED <<cfgVars, failed>>
  /\ UNCHANGED <<concatVars, chunkerVars, envVars, fsVars, locVars, netVars, gateVars, uiVars>>

\* a lookup that finds every command
isCommandAvailable_Always == TRUE

\* isCommandAvailable("ffmpeg")
isCommandAvailable == ffmpegInPath

\* run: checkPrerequisites(flags)
CheckPrerequisites ==
  /\ pc = "checkPrerequisites"
  /\ IF flags.CombineFiles /\ ~isCommandAvailable
       THEN Returns("ffmpeg is required for combining files. "
                    \o "Please install ffmpeg and try again")
       ELSE pc' = "readInputFile" /\ err' = err
  /\ UNCHANGED <<concatVars, chunkerVars, envVars, cfgVars, fsVars, locVars, netVars, gateVars, uiVars,
                 failed>>

\* run: readInputFile(flags.InputFile, flags.BufferTextFlag), and multiFile
ReadInputFile ==
  /\ pc = "readInputFile"
  /\ \/ \* os.Open fails
        /\ ~Exists(flags.InputFile)
        /\ Returns("unable to open input file: ENOENT")
        /\ Fails("os.Open")
        /\ UNCHANGED <<chunks, inputRead>>
     \/ /\ Exists(flags.InputFile)
        /\ inputRead' = TRUE
        /\ \/ \* io.ReadAll fails
              /\ Returns("unable to read input file data: error reading input data: EIO")
              /\ Fails("io.ReadAll")
              /\ UNCHANGED chunks
           \/ /\ chunks' = readFileData(disk[flags.InputFile], flags.BufferTextFlag)
              /\ pc' = IF Len(chunks') > 1 THEN "promptForConfirmation" ELSE "processChunks"
              /\ err' = err
              /\ UNCHANGED failed
  /\ UNCHANGED <<concatVars, chunkerVars, envVars, cfgVars, fsVars, createdFiles, idx, outputFileName,
                 textFileName, netVars, gateVars, confirmPrompts, answer, ffmpegRuns>>

RECURSIVE SkipSpaces(_)
SkipSpaces(line) ==
  IF line # <<>> /\ IsSpace(Head(line)) THEN SkipSpaces(Tail(line)) ELSE line

RECURSIVE Word(_)
Word(line) ==
  IF line # <<>> /\ ~IsSpace(Head(line)) THEN <<Head(line)>> \o Word(Tail(line)) ELSE <<>>

\* fmt.Scanln(&response) on the typed line: the first space separated word (the
\* error for an empty line or for more words is dropped by the caller)
Scanln(line) == Word(SkipSpaces(line))

RECURSIVE TrimRight(_)
TrimRight(r) ==
  IF r # <<>> /\ IsSpace(r[Len(r)]) THEN TrimRight(SubSeq(r, 1, Len(r) - 1)) ELSE r

\* strings.TrimSpace
TrimSpace(r) == TrimRight(SkipSpaces(r))

\* strings.ToLower on the letters of the answers
ToLower(r) ==
  [i \in DOMAIN r |-> CASE r[i] = "Y" -> "y" [] r[i] = "N" -> "n" [] r[i] = "E" -> "e"
                        [] r[i] = "S" -> "s" [] OTHER -> r[i]]

\* a prompt that takes every answer starting with y or Y for a yes
promptForConfirmation_Prefix(line) ==
  Scanln(line) # <<>> /\ ToLower(<<Head(Scanln(line))>>) = <<"y">>

\* promptForConfirmation's result for the typed line
promptForConfirmation(line) == ToLower(TrimSpace(Scanln(line))) = <<"y">>

\* run: the prompt of a run of more than one chunk
PromptForConfirmation ==
  /\ pc = "promptForConfirmation"
  /\ \E line \in AnswerLines :
       /\ answer' = line
       /\ confirmPrompts' = confirmPrompts + 1
       /\ IF promptForConfirmation(line)
            THEN pc' = "processChunks" /\ err' = err
            ELSE Returns(Nil)
  /\ UNCHANGED <<concatVars, chunkerVars, envVars, cfgVars, fsVars, locVars, netVars, gateVars,
                 inputRead, ffmpegRuns, failed>>

\* a run of one chunk counted among the runs of several files
multiFile_NonEmpty == Len(chunks) > 0

\* multiFile, of run and of processChunks: len(chunks) > 1
multiFile == Len(chunks) > 1

\* an append that leaves the ledger as it is
appendCreated_Forget(created, name) == created

\* *createdFiles = append(*createdFiles, name)
appendCreated(created, name) == Append(created, name)

\* processChunks up to its loop
ProcessChunksBegin ==
  /\ pc = "processChunks"
  /\ IF flags.CombineFiles /\ multiFile
       THEN /\ textFileName' = ManifestName(flags.OutputFile)
            /\ createdFiles' = appendCreated(createdFiles, textFileName')
       ELSE UNCHANGED <<textFileName, createdFiles>>
  /\ idx' = 0
  /\ answer' = <<>>
  /\ pc' = "loop"
  /\ UNCHANGED <<concatVars, chunkerVars, envVars, cfgVars, fsVars, chunks, outputFileName, netVars,
                 gateVars, confirmPrompts, inputRead, ffmpegRuns, failed, err>>

\* the loop of processChunks is over: processChunks returns nil, and run
\* goes on to its last step
ProcessChunksEnd ==
  /\ pc = "loop"
  /\ ~(idx < Len(chunks))
  /\ IF multiFile /\ flags.CombineFiles
       THEN pc' = "combineFiles" /\ err' = err
       ELSE Returns(Nil)
  /\ UNCHANGED <<concatVars, chunkerVars, envVars, cfgVars, fsVars, locVars, netVars, gateVars, uiVars,
                 failed>>

\* every chunk goes to the user-specified output path
OutputFileName_Output(i) == flags.OutputFile

\* the destination of chunk i (from 0)
OutputFileName(i) ==
  IF multiFile THEN ArtifactName(flags.OutputFile, i, flags.FormatOption)
               ELSE flags.OutputFile

\* the loop of processChunks, from the head of an iteration to the rate
\* limiter: the destination, the ledger, appendToTextFile
NameChunk ==
  /\ pc = "loop"
  /\ idx < Len(chunks)
  /\ outputFileName' = OutputFileName(idx)
  /\ createdFiles' = IF multiFile THEN appendCreated(createdFiles, outputFileName')
                                  ELSE createdFiles
  /\ IF multiFile /\ flags.CombineFiles
       THEN \/ \* os.OpenFile fails
               /\ Returns("unable to open text file: EACCES")
               /\ Fails("os.OpenFile")
               /\ UNCHANGED <<disk, written>>
            \/ \* the file is opened (created when absent); WriteString fails
               /\ disk' = IF Exists(textFileName) THEN disk
                          ELSE WithFile(disk, textFileName, <<>>)
               /\ written' = written \cup {textFileName}
               /\ Returns("unable to write to text file: ENOSPC")
               /\ Fails("file.WriteString")
            \/ \* the line is appended
               /\ disk' = WithFile(disk, textFileName,
                                   Cat(IF Exists(textFileName) THEN disk[textFileName] ELSE <<>>,
                                       FromSeq(ManifestLine(outputFileName'))))
               /\ written' = written \cup {textFileName}
               /\ pc' = "rateLimiter" /\ err' = err
               /\ UNCHANGED failed
       ELSE /\ pc' = "rateLimiter" /\ err' = err
            /\ UNCHANGED <<disk, written, failed>>
  /\ UNCHANGED <<concatVars, chunkerVars, envVars, cfgVars, removed, cleanupErr, chunks, idx, textFileName,
                 netVars, gateVars, uiVars>>

\* the ticker of time.Tick sends a tick; its channel holds one, and a tick
\* that finds it full is dropped.  On the clock the ticks come one interval
\* apart, the first one interval after configure; off the clock a tick may
\* come at any moment.
Tick ==
  /\ config.rateLimiter
  /\ pc \notin {"done", "none"}
  /\ IF timed
       THEN /\ now = nextTick
            /\ nextTick' = nextTick + Interval(flags.RateLimit)
       ELSE /\ ~tickPending
            /\ UNCHANGED nextTick
  /\ tickPending' = TRUE
  /\ UNCHANGED <<concatVars, chunkerVars, envVars, cfgVars, fsVars, locVars, netVars, uiVars, pc, err,
                 timed, now, permits, failed>>

\* processChunks blocks in <-config.rateLimiter
Waiting == pc = "rateLimiter" /\ Waits /\ ~tickPending

\* time passes, up to the next tick: while processChunks waits for a tick,
\* and while a request is under way (the time the request and its response take)
Advance ==
  /\ timed
  /\ Waiting \/ pc = "tts"
  /\ now < MaxTime
  /\ config.rateLimiter => now < nextTick
  /\ now' = now + ClockStep
  /\ UNCHANGED <<concatVars, chunkerVars, envVars, cfgVars, fsVars, locVars, netVars, uiVars, pc, err,
                 tickPending, timed, nextTick, permits, failed>>

\* the loop of processChunks: if flags.RateLimit > 0 { <-config.rateLimiter }
\* (a receive from the nil channel of a Config without ticker never returns)
RateLimiter ==
  /\ pc = "rateLimiter"
  /\ IF Waits
       THEN /\ config.rateLimiter /\ tickPending
            /\ tickPending' = FALSE
            /\ permits' = Append(permits, now)
       ELSE UNCHANGED <<tickPending, permits>>
  /\ pc' = "processChunk"
  /\ UNCHANGED <<concatVars, chunkerVars, envVars, cfgVars, fsVars, locVars, netVars, uiVars, err,
                 timed, now, nextTick, failed>>

\* an os.Create that leaves the content of a file that exists
Create_NoTruncate(d, path) == IF path \in DOMAIN d THEN d ELSE WithFile(d, path, <<>>)

\* os.Create(path): the file is created, or truncated when it exists
Create(d, path) == WithFile(d, path, <<>>)

\* the bytes written to the file opened at path, after what was written to it
\* since it was opened
Write(d, path, bytes) == WithFile(d, path, Cat(d[path], bytes))

\* processChunk: os.Create(outputFileName)
CreateOutput ==
  /\ pc = "processChunk"
  /\ \/ /\ Returns("unable to create output file: EACCES")
        /\ Fails("os.Create")
        /\ UNCHANGED <<disk, written>>
     \/ /\ disk' = Create(disk, outputFileName)
        /\ written' = written \cup {outputFileName}
        /\ pc' = "tts" /\ err' = err
        /\ UNCHANGED failed
  /\ UNCHANGED <<concatVars, chunkerVars, envVars, cfgVars, removed, cleanupErr, locVars, netVars, gateVars, uiVars>>

\* every request carries the text of the first chunk
Request_First(i) ==
  [Model |-> flags.ModelOption, Input |-> chunks[1], Voice |-> flags.VoiceOption,
   Format |-> Flat(flags.FormatOption), Speed |-> flags.SpeedOption,
   Authorization |-> "Bearer " \o config.OpenAIAPIKey]

\* the TTSRequest of chunk i (from 0) and the headers of its request
Request(i) ==
  [Model |-> flags.ModelOption, Input |-> chunks[i + 1], Voice |-> flags.VoiceOption,
   Format |-> Flat(flags.FormatOption), Speed |-> flags.SpeedOption,
   Authorization |-> "Bearer " \o config.OpenAIAPIKey]

\* the error of tts without the body of the response
StatusError_NoBody(code, body) ==
  "OpenAI API request failed with status code: " \o Flat(Itoa(code))

\* the error of tts for a status other than 200; body is what io.ReadAll
\* delivers of the response body (its error is dropped)
StatusError(code, body) ==
  "OpenAI API request failed with status code: " \o Flat(Itoa(code))
  \o ", response body: " \o Shown(body)

\* processChunk's wrapping of the error of tts
ProcessChunkError(e) == "unable to process audio data: " \o e

\* tts (the request, the response, io.Copy into the output file), the return
\* of processChunk, and the end of the iteration
Tts ==
  /\ pc = "tts"
  /\ requests' = Append(requests, Request(idx))
  /\ \/ \* client.Do fails (no connection, the 90 s timeout)
        /\ responses' = Append(responses, [error |-> "ETIMEDOUT"])
        /\ Returns(ProcessChunkError("unable to send request to OpenAI API: ETIMEDOUT"))
        /\ Fails("client.Do")
        /\ UNCHANGED <<disk, idx>>
     \/ \* a status other than 200
        \E resp \in ErrorResponses :
          /\ responses' = Append(responses, resp)
          /\ Returns(ProcessChunkError(StatusError(resp.StatusCode, resp.Body)))
          /\ Fails("status")
          /\ UNCHANGED <<disk, idx>>
     \/ \* status 200
        LET body == AudioBody(Len(requests))
        IN
          /\ responses' = Append(responses, [StatusCode |-> 200, Body |-> body])
          /\ \/ \* io.Copy fails after k code units
                \E k \in 0..(RuneCount(body) - 1) :
                  /\ disk' = Write(disk, outputFileName, Take(body, k))
                  /\ Returns(ProcessChunkError("unable to write to output: ENOSPC"))
                  /\ Fails("io.Copy")
                  /\ UNCHANGED idx
             \/ /\ disk' = Write(disk, outputFileName, body)
                /\ idx' = idx + 1
                /\ pc' = "loop" /\ err' = err
                /\ UNCHANGED failed
  /\ UNCHANGED <<concatVars, chunkerVars, envVars, cfgVars, written, removed, cleanupErr, chunks, createdFiles,
                 outputFileName, textFileName, gateVars, uiVars>>

RECURSIVE cleanupFrom_StopAtError(_, _, _, _)
\* a loop that ends at the first os.Remove that fails
cleanupFrom_StopAtError(d, files, k, refused) ==
  IF k > Len(files) THEN [disk |-> d, calls |-> <<>>]
  ELSE IF files[k] \in DOMAIN d /\ k \notin refused
    THEN LET rest == cleanupFrom_StopAtError(WithoutFile(d, files[k]), files, k + 1, refused)
         IN  [disk |-> rest.disk,
              calls |-> <<[file |-> files[k], err |-> Nil]>> \o rest.calls]
  ELSE [disk |-> d,
        calls |-> <<[file |-> files[k],
                     err |-> "error deleting file " \o Flat(files[k]) \o ": EPERM"]>>]

RECURSIVE cleanupFrom(_, _, _, _)
\* the loop of cleanupFiles from the k-th file on, os.Remove failing for a
\* file that does not exist and for the files the environment refuses
\* (those at the positions in refused): the files left, and for each call of
\* os.Remove the file and the entry of errs (Nil when it succeeded)
cleanupFrom(d, files, k, refused) ==
  IF k > Len(files) THEN [disk |-> d, calls |-> <<>>]
  ELSE LET ok == files[k] \in DOMAIN d /\ k \notin refused
           rest == cleanupFrom(IF ok THEN WithoutFile(d, files[k]) ELSE d,
                               files, k + 1, refused)
       IN  [disk |-> rest.disk,
            calls |-> <<[file |-> files[k],
                         err |-> IF ok THEN Nil
                                 ELSE "error deleting file " \o Flat(files[k]) \o ": "
                                      \o (IF files[k] \in DOMAIN d THEN "EPERM" ELSE "ENOENT")]>>
                      \o rest.calls]

\* cleanupFiles leaving the first file of the ledger alone
cleanupFiles_SkipFirst(d, files, refused) ==
  [disk |-> cleanupFrom(d, files, 2, refused).disk,
   calls |-> cleanupFrom(d, files, 2, refused).calls, err |-> Nil]

\* cleanupFiles(files): the files left, the calls of os.Remove, and the error
\* returned, "cleanup errors:" and the lines of errs (joined by "\n" in the code)
cleanupFiles(d, files, refused) ==
  LET c == cleanupFrom(d, files, 1, refused)
      errs == SelectSeq(c.calls, LAMBDA rm : rm.err # Nil)
  IN  [disk |-> c.disk, calls |-> c.calls,
       err |-> IF Len(errs) > 0
                 THEN <<"cleanup errors:">> \o [i \in DOMAIN errs |-> errs[i].err]
                 ELSE Nil]

\* what the external tool writes to the output path
combinedAudio == <<Run("C", 1)>>

\* run: combineFiles(flags, createdFiles).  The external tool, run without
\* -y and without a terminal, does not overwrite an existing output file: it
\* can end without error only when the output path is free.
CombineFiles ==
  /\ pc = "combineFiles"
  /\ ffmpegRuns' = ffmpegRuns + 1
  /\ \/ \* cmd.Run fails
        /\ Returns("unable to combine files: exit status 1")
        /\ Fails("cmd.Run")
        /\ UNCHANGED <<disk, removed, cleanupErr>>
     \/ \* cmd.Run succeeds; cleanupFiles, its error logged only
        /\ ~Exists(flags.OutputFile)
        /\ \E refused \in SUBSET (1..Len(createdFiles)) :
             LET c == cleanupFiles(WithFile(disk, flags.OutputFile, combinedAudio),
                                   createdFiles, refused)
             IN  /\ disk' = c.disk /\ removed' = c.calls /\ cleanupErr' = c.err
                 /\ failed' = failed \cup (IF c.err # Nil THEN {"os.Remove"} ELSE {})
        /\ Returns(Nil)
  /\ UNCHANGED <<concatVars, chunkerVars, envVars, cfgVars, written, locVars, netVars, gateVars,
                 confirmPrompts, answer, inputRead>>

NextRun ==
  \/ Configure \/ HandleFlags \/ CheckPrerequisites \/ ReadInputFile
  \/ PromptForConfirmation \/ ProcessChunksBegin \/ NameChunk \/ Tick \/ RateLimiter
  \/ CreateOutput \/ Tts \/ ProcessChunksEnd \/ CombineFiles

Spec == InitRun /\ [][NextRun]_vars

NextTimed == NextRun \/ Advance

SpecTimed == InitTimed /\ [][NextTimed]_vars

NextChunker == Enter \/ LoopIter \/ LoopExit \/ Return

SpecChunker == InitChunker /\ [][NextChunker]_vars

\* the call goes on as long as it has a step to take
SpecChunkerLive == SpecChunker /\ WF_vars(NextChunker)

(***************************************************************************)
(* mp3concat: its start (init, parseArgs) and main.                        *)
(***************************************************************************)
allowedFileExt == <<".", "m", "p", "3">>
requiredFiledCount == 3

\* the arguments: names that end with .mp3, the extension alone, names that
\* end otherwise, names shorter than the extension
ArgNames ==
  {<<"a", ".", "m", "p", "3">>, <<".", "m", "p", "3">>, <<"b", ".", "w", "a", "v">>,
   <<"m", "p", "3">>, <<>>}

ArgLists == UNION {[1..n -> ArgNames] : n \in 0..MaxArgs}

InitConcat ==
  /\ args \in ArgLists
  /\ mp3Files = <<>>
  /\ fileCount = 0
  /\ argIdx = 0
  /\ stdout = <<>>
  /\ mpc = "parseArgs"
  /\ panicValue = "none"
  /\ NoRun
  /\ NoCall

\* fileName[len(fileName)-4:] is within the bounds of fileName
InBounds(fileName) == Len(fileName) - 4 >= 0

\* string(fileName[len(fileName)-4:])
fileExtension(fileName) == SubSeq(fileName, Len(fileName) - 4 + 1, Len(fileName))

\* one iteration of the loop of parseArgs
ParseArg ==
  /\ mpc = "parseArgs"
  /\ argIdx < Len(args)
  /\ LET fileName == args[argIdx + 1]
     IN  IF ~InBounds(fileName)
           THEN /\ mpc' = "panic"
                /\ panicValue' = "runtime error: slice bounds out of range"
                /\ UNCHANGED <<mp3Files, fileCount, argIdx, stdout>>
         ELSE IF fileExtension(fileName) # allowedFileExt
           THEN /\ stdout' = stdout \o <<fileExtension(fileName), fileName>>
                /\ mpc' = "panic"
                /\ panicValue' = "All mp3Files must end with .mp3"
                /\ UNCHANGED <<mp3Files, fileCount, argIdx>>
         ELSE /\ mp3Files' = Append(mp3Files, [fileName |-> fileName])
              /\ fileCount' = fileCount + 1
              /\ argIdx' = argIdx + 1
              /\ UNCHANGED <<stdout, mpc, panicValue>>
  /\ UNCHANGED <<args, chunkerVars, runVars>>

\* the loop of parseArgs is over: parseArgs returns to init
ParseArgsReturn ==
  /\ mpc = "parseArgs"
  /\ ~(argIdx < Len(args))
  /\ mpc' = "init"
  /\ UNCHANGED <<args, mp3Files, fileCount, argIdx, stdout, panicValue, chunkerVars, runVars>>

\* a check that asks for more mp3Files than requiredFiledCount
TooFew_AtMost(count) == count <= requiredFiledCount

\* init: if fileCount < requiredFiledCount
TooFew(count) == count < requiredFiledCount

\* init after parseArgs
InitCheck ==
  /\ mpc = "init"
  /\ IF TooFew(fileCount)
       THEN mpc' = "panic" /\ panicValue' = "Not Enoug Files to Concat"
       ELSE mpc' = "main" /\ UNCHANGED panicValue
  /\ UNCHANGED <<args, mp3Files, fileCount, argIdx, stdout, chunkerVars, runVars>>

\* main, which has no statement
Main ==
  /\ mpc = "main"
  /\ mpc' = "exit"
  /\ UNCHANGED <<args, mp3Files, fileCount, argIdx, stdout, panicValue, chunkerVars, runVars>>

NextConcat == ParseArg \/ ParseArgsReturn \/ InitCheck \/ Main

\* the process runs as long as it has a step to take
SpecConcat == InitConcat /\ [][NextConcat]_vars /\ WF_vars(NextConcat)

\* the stepwise call and the functions agree
StepwiseAgrees ==
  cpc = "return" =>
    result = IF call = "readFileData" THEN readFileData(text, bufferText)
                                      ELSE splitIntoChunks(text, chunkSize)

(***************************************************************************)
(* Properties of the chunker.                                              *)
(***************************************************************************)
RECURSIVE Concat(_)
\* the concatenation, in order, of the strings of a sequence
Concat(strs) == IF strs = <<>> THEN <<>> ELSE Cat(Head(strs), Concat(Tail(strs)))

HasBadByte(s) == \E i \in DOMAIN s : s[i].c = BadByte
HasSpace(s) == \E i \in DOMAIN s : IsSpace(s[i].c)

\* the text with each invalid byte replaced by the encoding of U+FFFD
Replaced(s) == Norm([i \in DOMAIN s |-> IF s[i].c = BadByte THEN Run(RuneError, s[i].n) ELSE s[i]])

Framed(s) == Cat(Cat(startText, s), endText)

\* some index i (from 0) of t with lo <= i <= hi holds whitespace
SpaceWithin(t, lo, hi) ==
  \E j \in DOMAIN t :
    LET first == RuneCount(SubSeq(t, 1, j - 1))
        last == first + t[j].n - 1
    IN  IsSpace(t[j].c) /\ lo <= hi /\ first <= hi /\ lo <= last

\* the chunk budget of the call
Budget ==
  IF call = "readFileData"
    THEN IF bufferText THEN api_max_chars - 20 ELSE api_max_chars
    ELSE chunkSize

\* C1 as stated: for every text T and every chunkSize > 0 the concatenation, in
\* order, of the strings returned by splitIntoChunks(T, chunkSize) is T exactly.
C1_ConcatIsText ==
  cpc \in {"after", "return"} => Concat(splitChunks) = text

\* C1 amended: the concatenation, in order, of the strings returned by
\* splitIntoChunks(T, chunkSize) is T with each byte that is not valid UTF-8
\* replaced by U+FFFD, hence T exactly whenever T is valid UTF-8: no code point
\* is dropped, duplicated or reordered.
C1_ConcatIsCodePoints ==
  cpc \in {"after", "return"} =>
    /\ Concat(splitChunks) = Replaced(text)
    /\ ~HasBadByte(text) => Concat(splitChunks) = text

\* a valid text was split in three or more chunks, the second one starting
\* with the whitespace of the boundary
C1_Witness ==
  /\ cpc = "return"
  /\ ~HasBadByte(text)
  /\ \E i \in DOMAIN text : text[i].c = "a"
  /\ Len(splitChunks) >= 3
  /\ IsSpace(RuneAt(splitChunks[2], 0))

\* C2: every chunk returned by readFileData has at most api_max_chars = 4096
\* code points, the framing of 11 + 9 code points included when bufferText is
\* set (the core then has at most 4076); every chunk of
\* splitIntoChunks(T, chunkSize) has at most chunkSize code points, also when
\* T holds no whitespace.
C2_ChunkWithinBudget ==
  /\ RuneCount(startText) = 11 /\ RuneCount(endText) = 9
  /\ cpc = "return" =>
       /\ \A i \in DOMAIN splitChunks : RuneCount(splitChunks[i]) <= Budget
       /\ call = "splitIntoChunks" =>
            \A i \in DOMAIN result : RuneCount(result[i]) <= chunkSize
       /\ call = "readFileData" =>
            /\ Len(result) = Len(splitChunks)
            /\ \A i \in DOMAIN result :
                 /\ RuneCount(result[i]) <= api_max_chars
                 /\ bufferText => RuneCount(result[i]) = RuneCount(splitChunks[i]) + 20

\* readFileData with buffering returned, for a text without whitespace, two or
\* more chunks, the first of exactly api_max_chars code points
C2_Witness ==
  /\ cpc = "return"
  /\ call = "readFileData" /\ bufferText
  /\ ~HasSpace(text)
  /\ Len(result) >= 2
  /\ RuneCount(result[1]) = api_max_chars

\* C3 as stated: for every text of at most the chunk budget code points the
\* chunker returns exactly one chunk, the text itself, or the framed text when
\* buffering is enabled.
C3_OneChunk ==
  (cpc = "return" /\ RuneCount(text) <= Budget) =>
     result = <<IF call = "readFileData" /\ bufferText THEN Framed(text) ELSE text>>

\* C3 amended: for every non-empty text of at most the chunk budget code points
\* the chunker returns exactly one chunk: the text with each byte that is not
\* valid UTF-8 replaced by U+FFFD (the text itself when it is valid UTF-8), framed
\* when buffering is enabled; for the empty text it returns no chunk.
C3_OneChunkIfNotEmpty ==
  (cpc = "return" /\ RuneCount(text) <= Budget) =>
     IF text = <<>>
       THEN result = <<>>
       ELSE /\ result = <<IF call = "readFileData" /\ bufferText
                            THEN Framed(Replaced(text)) ELSE Replaced(text)>>
            /\ ~HasBadByte(text) =>
                 result = <<IF call = "readFileData" /\ bufferText
                              THEN Framed(text) ELSE text>>

\* readFileData with buffering returned one framed chunk for a text of exactly
\* the budget
C3_Witness ==
  /\ cpc = "return"
  /\ call = "readFileData" /\ bufferText
  /\ RuneCount(text) = api_max_chars - 20
  /\ HasSpace(text)
  /\ Len(result) = 1

\* C4: every non-final chunk (one emitted while more than chunkSize code points
\* remain) is the prefix of the remaining text that ends just before the
\* largest index i in 1..chunkSize holding whitespace, the next chunk then
\* starting with that whitespace; when no index in 1..chunkSize holds
\* whitespace (index 0 does not count) it is the first chunkSize code points.
C4_SplitPoint ==
  [][(cpc = "loop" /\ RuneCount(inputRunes) > chunkSize) =>
       LET k == RuneCount(inputRunes) - RuneCount(inputRunes')
       IN  /\ k \in 1..chunkSize
           /\ splitChunks' = Append(splitChunks, Take(inputRunes, k))
           /\ inputRunes' = Drop(inputRunes, k)
           /\ IF SpaceWithin(inputRunes, 1, chunkSize)
                THEN /\ IsSpace(RuneAt(inputRunes, k))
                     /\ ~SpaceWithin(inputRunes, k + 1, chunkSize)
                     /\ IsSpace(RuneAt(inputRunes', 0))
                ELSE k = chunkSize]_vars

\* a non-final chunk shorter than chunkSize was emitted, the remaining text
\* starting with the whitespace of the boundary, after a forced one of exactly
\* chunkSize code points
C4_Witness ==
  /\ cpc = "loop"
  /\ Len(splitChunks) >= 2
  /\ RuneCount(splitChunks[1]) = chunkSize
  /\ ~HasSpace(splitChunks[1])
  /\ RuneCount(splitChunks[2]) < chunkSize
  /\ RuneCount(inputRunes) > 0
  /\ IsSpace(RuneAt(inputRunes, 0))

(***************************************************************************)
(* Properties of a run.                                                    *)
(***************************************************************************)
\* the response is a status other than 200
IsStatusError(r) == "StatusCode" \in DOMAIN r /\ r.StatusCode # 200

\* the message of tts for the scripted responses of a failure, written out
StatusMessage(r) ==
  CASE r.StatusCode = 400 /\ r.Body = <<Run("B", 1), Run("a", 1), Run("d", 1)>> ->
         "OpenAI API request failed with status code: 400, response body: Bad"
    [] r.StatusCode = 500 /\ r.Body = <<>> ->
         "OpenAI API request failed with status code: 500, response body: "

\* C5: in processChunks, when the transport returns a status other than 200 for
\* chunk k, no request is sent for a chunk after k (the request of chunk k is the
\* last one, and the run is over), and the error returned carries the status code
\* and the body of that response verbatim: it is the error of tts, exactly
\* "OpenAI API request failed with status code: <code>, response body: <body>",
\* wrapped by processChunk.
C5_StopsAtStatusError ==
  /\ Len(responses) = Len(requests)
  /\ \A k \in DOMAIN requests : requests[k].Input = chunks[k]
  /\ \A k \in DOMAIN responses :
       IsStatusError(responses[k]) =>
         /\ k = Len(requests)
         /\ idx = k - 1
         /\ pc = "done"
         /\ err = "unable to process audio data: " \o StatusMessage(responses[k])

\* the second of three chunks got status 400 with a body
C5_Witness ==
  /\ pc = "done"
  /\ Len(chunks) = 3
  /\ Len(requests) = 2
  /\ IsStatusError(responses[2])
  /\ responses[2].StatusCode = 400

\* the output path without its extension, written out for the output paths
Stem(out) ==
  CASE out = <<"o", ".", "m", "p", "3">> -> <<"o">>
    [] out = <<"o", ".", "t", "x", "t">> -> <<"o">>
    [] out = <<"d", ".", "d", "/", "o">> -> <<"d", ".", "d", "/", "o">>

\* "<output path without its extension>_<i>.<format option>", i from 1
NumberedName(i) ==
  Stem(flags.OutputFile)
  \o (CASE i = 1 -> <<"_", "1", ".">> [] i = 2 -> <<"_", "2", ".">> [] i = 3 -> <<"_", "3", ".">>)
  \o flags.FormatOption

RECURSIVE ManifestOf(_)
\* the n lines "file '<artifact name of chunk i>'", in chunk order
ManifestOf(n) ==
  IF n = 0 THEN <<>>
  ELSE ManifestOf(n - 1) \o <<"f", "i", "l", "e", " ", "'">> \o NumberedName(n) \o <<"'", "\n">>

\* C6: given n chunks and combine=true, after processChunks completes (its
\* manifest is the one of a run of more than one chunk) the manifest file
\* contains exactly n lines, line i being "file '<artifact name of chunk i>'",
\* in chunk order.
C6_ManifestLines ==
  (pc = "combineFiles" /\ flags.CombineFiles /\ Len(chunks) > 1) =>
     /\ Exists(Stem(flags.OutputFile) \o <<".", "t", "x", "t">>)
     /\ disk[Stem(flags.OutputFile) \o <<".", "t", "x", "t">>] = FromSeq(ManifestOf(Len(chunks)))

\* every file of the ledger is on disk
LedgerOnDisk == \A k \in DOMAIN createdFiles : Exists(createdFiles[k])

\* C7 as stated: after combineFiles returns success none of the files listed in
\* the ledger (manifest and chunk artifacts) remains on disk; after it returns a
\* failure all of them are still on disk, no deletion having been attempted.
C7_LedgerGone ==
  (pc = "done" /\ ffmpegRuns = 1) =>
     IF err = Nil
       THEN \A k \in DOMAIN createdFiles : ~Exists(createdFiles[k])
       ELSE LedgerOnDisk /\ removed = <<>>

\* C7 amended: after combineFiles returns success the deletion of every file
\* listed in the ledger has been attempted, once and in ledger order, and none of
\* them remains on disk but those whose deletion failed (combineFiles logs these
\* failures and still returns success); after it returns a failure all of them
\* are still on disk, no deletion having been attempted.
C7_LedgerGoneUnlessRefused ==
  (pc = "done" /\ ffmpegRuns = 1) =>
     IF err = Nil
       THEN /\ Len(removed) = Len(createdFiles)
            /\ \A k \in DOMAIN createdFiles :
                 /\ removed[k].file = createdFiles[k]
                 /\ Exists(createdFiles[k]) => removed[k].err # Nil
       ELSE LedgerOnDisk /\ removed = <<>>

\* the combination of three chunks succeeded, the deletion of the manifest
\* failed and the one of the artifacts did not
C7_Witness ==
  /\ pc = "done" /\ ffmpegRuns = 1 /\ err = Nil
  /\ Len(createdFiles) = 4
  /\ removed[1].err # Nil
  /\ Exists(createdFiles[1])
  /\ \A k \in 2..4 : removed[k].err = Nil /\ ~Exists(createdFiles[k])

\* the dispatcher is at work: processChunks has been entered and run has not
\* gone on to combineFiles
Dispatching == pc \in {"loop", "rateLimiter", "processChunk", "tts"}

\* C8: when the run has exactly one chunk its audio is written to the
\* user-specified output path unchanged (whatever the combine flag); when it has
\* n > 1 chunks, chunk i (counted from 1) is written to "<output path without its
\* extension>_<i>.<format option>", and the user-specified output path itself is
\* not written by the dispatcher.
C8_ArtifactNames ==
  /\ (Len(chunks) = 1 /\ pc \in {"processChunk", "tts"}) =>
        outputFileName = flags.OutputFile
  /\ (Len(chunks) = 1 /\ pc = "done" /\ err = Nil) =>
        /\ written = {flags.OutputFile}
        /\ disk[flags.OutputFile] = responses[1].Body
  /\ (Len(chunks) > 1 /\ pc \in {"processChunk", "tts"}) =>
        outputFileName = NumberedName(idx + 1)
  /\ (Len(chunks) > 1 /\ (Dispatching \/ pc = "combineFiles")) =>
        /\ \A i \in 1..idx : /\ Exists(NumberedName(i))
                             /\ disk[NumberedName(i)] = responses[i].Body
        /\ flags.OutputFile \notin written

\* nothing of the processing of chunks has happened: the input file is not
\* read, no request is sent, no confirmation prompt is shown, no file is created
\* or opened for writing, the ledger is empty
NothingProcessed ==
  /\ ~inputRead /\ chunks = <<>>
  /\ requests = <<>> /\ responses = <<>>
  /\ confirmPrompts = 0
  /\ written = {} /\ createdFiles = <<>> /\ removed = <<>> /\ ffmpegRuns = 0

\* C9: when combining is requested and the external tool (ffmpeg) is not
\* available, run fails in checkPrerequisites (the step after configure and
\* handleFlags, for a run they do not end) before the input file is read and
\* before any chunk is processed: no request is sent, no confirmation prompt is
\* shown and no artifact or manifest file is created.
C9_FailsInCheckPrerequisites ==
  /\ [](flags.CombineFiles /\ ~ffmpegInPath =>
          /\ NothingProcessed
          /\ pc \in {"configure", "handleFlags", "checkPrerequisites", "done"})
  /\ [][(flags.CombineFiles /\ ~ffmpegInPath /\ pc = "checkPrerequisites" /\ pc' # pc) =>
          /\ pc' = "done"
          /\ err' = "ffmpeg is required for combining files. "
                    \o "Please install ffmpeg and try again"
          /\ disk' = disk]_vars

\* the run of a file of three chunks with -c and without ffmpeg is over, failed
\* in checkPrerequisites
C9_Witness ==
  /\ flags.CombineFiles /\ ~ffmpegInPath
  /\ pc = "done"
  /\ err = "ffmpeg is required for combining files. Please install ffmpeg and try again"
  /\ Exists(flags.InputFile)
  /\ RuneCount(disk[flags.InputFile]) > 2 * api_max_chars

\* the answer with the whitespace at both ends removed and in lower case
Trimmed(line) ==
  LET ink == {i \in DOMAIN line : line[i] # " "}
      lo == CHOOSE i \in ink : \A j \in ink : i <= j
      hi == CHOOSE i \in ink : \A j \in ink : j <= i
  IN  IF ink = {} THEN <<>>
      ELSE [i \in 1..(hi - lo + 1) |->
              IF line[lo + i - 1] = "Y" THEN "y" ELSE line[lo + i - 1]]

\* the first word of the answer (up to the first whitespace after it), in
\* lower case
FirstWord(line) ==
  LET ink == {i \in DOMAIN line : line[i] # " "}
      lo == CHOOSE i \in ink : \A j \in ink : i <= j
      hi == CHOOSE i \in lo..Len(line) :
              /\ \A j \in lo..i : j \in ink
              /\ i + 1 \in DOMAIN line => i + 1 \notin ink
  IN  IF ink = {} THEN <<>>
      ELSE [i \in 1..(hi - lo + 1) |->
              IF line[lo + i - 1] = "Y" THEN "y" ELSE line[lo + i - 1]]

\* a prompt is shown exactly to a run of more than one chunk, before it
\* dispatches anything
PromptedIfMany ==
  /\ Len(chunks) <= 1 => confirmPrompts = 0
  /\ confirmPrompts <= 1
  /\ (confirmPrompts = 0 /\ Len(chunks) > 1) =>
        /\ pc = "promptForConfirmation"
        /\ requests = <<>> /\ written = {} /\ createdFiles = <<>>

\* the run ends here with a nil error, nothing sent and no file created
Cancelled ==
  /\ pc' = "done" /\ err' = Nil
  /\ requests' = <<>> /\ written' = {} /\ createdFiles' = <<>>
  /\ disk' = disk

\* C10 as stated: when chunking yields more than one chunk, dispatch starts only
\* after the user has answered "y" (trimmed, case-insensitive) to the
\* confirmation prompt; any other answer ends the run with a nil error, with no
\* request sent and no artifact or manifest file created; when there is at most
\* one chunk no prompt is issued.
C10_OnlyAfterY ==
  /\ []PromptedIfMany
  /\ [][(pc = "promptForConfirmation" /\ pc' # pc) =>
          /\ confirmPrompts' = 1
          /\ IF Trimmed(answer') = <<"y">> THEN pc' = "processChunks" ELSE Cancelled]_vars

\* C10 amended: when chunking yields more than one chunk, dispatch starts only
\* after the first whitespace-delimited word of the user's answer to the
\* confirmation prompt is "y" (case-insensitive; what follows the word on the
\* line is not looked at); any other answer ends the run with a nil error, with
\* no request sent and no artifact or manifest file created; when there is at
\* most one chunk no prompt is issued.
C10_OnlyAfterFirstWordY ==
  /\ []PromptedIfMany
  /\ [][(pc = "promptForConfirmation" /\ pc' # pc) =>
          /\ confirmPrompts' = 1
          /\ IF FirstWord(answer') = <<"y">> THEN pc' = "processChunks" ELSE Cancelled]_vars

\* a run of three chunks is about to dispatch, the answer having been "y n"
C10_Witness ==
  /\ pc = "processChunks"
  /\ Len(chunks) = 3
  /\ confirmPrompts = 1
  /\ answer = <<"y", " ", "n">>
  /\ requests = <<>>

(***************************************************************************)
(* Properties of the rate limiter (runs followed on the clock).            *)
(***************************************************************************)
\* C11: with a rate limit of N > 0 calls per minute, no two permits are taken
\* from the gate (and hence no two requests are dispatched) closer together
\* than 60/N seconds, for any durations of the individual requests, including
\* requests that last longer than one interval.
C11_PermitsSpaced ==
  (timed /\ flags.RateLimit > 0) =>
     \A i \in DOMAIN permits : \A j \in DOMAIN permits :
        i < j => permits[j] - permits[i] >= 60 \div flags.RateLimit

\* C12: with a rate limit <= 0 (0 is the default, negative values included)
\* the gate is disabled: no ticker is created (there never is a tick) and
\* processChunks never waits on the rate limiter before any chunk, for any
\* number of chunks: no time passes there, no permit is taken, and the run goes
\* on to the request of the chunk.
C12_GateDisabled ==
  /\ [](flags.RateLimit <= 0 =>
          /\ ~config.rateLimiter /\ ~tickPending
          /\ permits = <<>>)
  /\ [][(flags.RateLimit <= 0 /\ pc = "rateLimiter") =>
          /\ now' = now
          /\ pc' = "processChunk"
          /\ idx' = idx /\ requests' = requests]_vars

\* a run with -r -1 has sent its three chunks, the first request having
\* lasted longer than half a minute
C12_Witness ==
  /\ timed /\ flags.RateLimit = -1
  /\ pc = "done" /\ err = Nil
  /\ Len(requests) = 3
  /\ now > 30

(***************************************************************************)
(* Properties of a request and of its destination file.                    *)
(***************************************************************************)
\* this step is the request of a chunk, the transport returning status 200
Answered200 ==
  /\ pc = "tts"
  /\ Len(responses') = Len(responses) + 1
  /\ "StatusCode" \in DOMAIN responses'[Len(responses')]
  /\ responses'[Len(responses')].StatusCode = 200

\* s is a prefix of t, and not t
ProperPrefix(s, t) == RuneCount(s) < RuneCount(t) /\ s = Take(t, RuneCount(s))

\* C13 as stated: when the transport returns status 200 for a chunk, tts writes
\* exactly the response body bytes to its writer and returns nil, and after
\* processChunk the destination file's content is exactly those bytes whatever
\* the file held before (it is truncated, not appended to).
C13_BodyWritten ==
  [][Answered200 =>
       /\ pc' = "loop" /\ err' = err
       /\ disk'[outputFileName] = responses'[Len(responses')].Body]_vars

\* C13 amended: when the transport returns status 200 for a chunk and copying
\* the body does not fail, tts writes exactly the response body bytes to its
\* writer and returns nil, and after processChunk the destination file's content
\* is exactly those bytes whatever the file held before (it is truncated, not
\* appended to); when copying fails, tts returns "unable to write to output:
\* <cause>", the run ends with that error and the file holds the bytes copied
\* until then, nothing of what it held before.
C13_BodyWrittenUnlessCopyFails ==
  [][Answered200 =>
       \/ /\ pc' = "loop" /\ err' = err
          /\ idx' = idx + 1
          /\ disk'[outputFileName] = responses'[Len(responses')].Body
       \/ /\ pc' = "done"
          /\ err' = "unable to process audio data: unable to write to output: ENOSPC"
          /\ ProperPrefix(disk'[outputFileName], responses'[Len(responses')].Body)]_vars

\* the audio of the first of several chunks is in its file, which held other
\* and longer audio before the run (the files of an earlier run are there)
C13_Witness ==
  /\ pc = "loop" /\ idx = 1 /\ Len(chunks) > 1
  /\ ~flags.CombineFiles
  /\ flags.InputFile # ManifestName(flags.OutputFile)
  /\ Exists(ManifestName(flags.OutputFile))
  /\ disk[outputFileName] = responses[1].Body
  /\ RuneCount(responses[1].Body) < RuneCount(oldAudio)

\* the response is a failure of the request: a transport error (the timeout
\* of the client included) or a status other than 200
RequestFailed(r) == "error" \in DOMAIN r \/ IsStatusError(r)

\* C14: when the request for chunk k fails (transport error, including timeout,
\* or non-200 status), the run aborts with an error and the artifact files
\* already written for chunks 1..k-1 remain on disk with their audio content: no
\* rollback or cleanup runs and the combiner is not invoked.
C14_EarlierArtifactsKept ==
  \A k \in DOMAIN responses :
     RequestFailed(responses[k]) =>
       /\ k = Len(responses)
       /\ pc = "done"
       /\ err \notin {Nil, "none"}
       /\ \A i \in 1..(k - 1) :
            /\ Exists(NumberedName(i))
            /\ disk[NumberedName(i)] = responses[i].Body
       /\ removed = <<>> /\ cleanupErr = Nil
       /\ ffmpegRuns = 0

\* with -c, the request of the third chunk ran into the timeout; the audio of
\* the first two chunks is in their files
C14_Witness ==
  /\ pc = "done"
  /\ flags.CombineFiles
  /\ Len(responses) = 3
  /\ "error" \in DOMAIN responses[3]
  /\ disk[NumberedName(1)] = responses[1].Body
  /\ disk[NumberedName(2)] = responses[2].Body

\* the ledger entries that are still on disk, in ledger order
LeftOnDisk == SelectSeq(createdFiles, LAMBDA f : Exists(f))

\* C15: after a successful external concat, cleanupFiles attempts to delete
\* every ledger entry (one os.Remove for each, in ledger order), continuing past
\* entries whose deletion fails; when some deletions fail cleanupFiles returns an
\* error that names each failed file ("error deleting file <name>", one line
\* for each after the line "cleanup errors:"), yet combineFiles and the run
\* still return success.
C15_CleanupBestEffort ==
  removed # <<>> =>
     /\ pc = "done" /\ err = Nil /\ ffmpegRuns = 1
     /\ Len(removed) = Len(createdFiles)
     /\ \A k \in DOMAIN createdFiles :
          /\ removed[k].file = createdFiles[k]
          /\ (removed[k].err = Nil) = ~Exists(createdFiles[k])
     /\ IF LeftOnDisk = <<>>
          THEN cleanupErr = Nil
          ELSE /\ cleanupErr # Nil
               /\ cleanupErr[1] = "cleanup errors:"
               /\ Len(cleanupErr) = 1 + Len(LeftOnDisk)
               /\ \A i \in DOMAIN LeftOnDisk :
                    cleanupErr[i + 1] = "error deleting file " \o Flat(LeftOnDisk[i]) \o ": EPERM"

\* after the concat of three chunks the deletion of the manifest and of the
\* second artifact failed, the first and the third artifact are gone, and the
\* run returned success
C15_Witness ==
  /\ pc = "done" /\ err = Nil /\ ffmpegRuns = 1
  /\ Len(createdFiles) = 4
  /\ Exists(createdFiles[1]) /\ ~Exists(createdFiles[2])
  /\ Exists(createdFiles[3]) /\ ~Exists(createdFiles[4])
  /\ Len(cleanupErr) = 3

(***************************************************************************)
(* Properties of the errors of a run.                                      *)
(***************************************************************************)
\* the operations the claim lists: writing the config file, opening and reading
\* the input, appending to the manifest, creating the output file, sending the
\* request, a status other than 200, copying the body, running the external tool
ListedOperations ==
  {"os.WriteFile", "os.Open", "io.ReadAll", "os.OpenFile", "file.WriteString",
   "os.Create", "client.Do", "status", "io.Copy", "cmd.Run"}

\* C16: every failure of an operation performed during run (writing the config
\* file in configure mode or when the stored key is empty, opening/reading the
\* input, appending to the manifest, creating the output file, sending the
\* request, a non-200 status, copying the body, running the external tool) makes
\* run return a non-nil error; the only failures that do not are file deletions
\* in the cleanup after a successful combine.
C16_FailuresReturned ==
  pc = "done" =>
     /\ failed \cap ListedOperations # {} => err # Nil
     /\ (err = Nil /\ failed # {}) => failed = {"os.Remove"}

(***************************************************************************)
(* Properties of the ledger and of the requests.                           *)
(***************************************************************************)
\* processChunks has returned nil for a run of at least one chunk
ProcessedAll ==
  /\ Len(chunks) >= 1
  /\ Len(requests) = Len(chunks)
  /\ pc = "combineFiles" \/ (pc = "done" /\ err = Nil)

\* the artifact filenames of the n chunks, in chunk order
NumberedNames(n) == [i \in 1..n |-> NumberedName(i)]

\* C17 as stated: processChunks appends to the ledger the filename of every
\* file it produces: after a successful run over n >= 1 chunks the ledger
\* contains the artifact filename of each of the n chunks (and the manifest
\* filename when combining), in the order the files were produced.
C17_LedgerComplete ==
  ProcessedAll =>
     createdFiles =
       (IF flags.CombineFiles /\ Len(chunks) > 1
          THEN <<Stem(flags.OutputFile) \o <<".", "t", "x", "t">>>> ELSE <<>>)
       \o (IF Len(chunks) = 1 THEN <<flags.OutputFile>> ELSE NumberedNames(Len(chunks)))

\* C17 amended: processChunks appends to the ledger the filename of every file
\* it produces for a run of more than one chunk: after a successful run over
\* n > 1 chunks the ledger contains the manifest filename when combining,
\* followed by the artifact filename of each of the n chunks in chunk order;
\* after a successful run over one chunk the ledger is empty (the file written
\* at the user-specified output path is not recorded).
C17_LedgerOfManyChunks ==
  ProcessedAll =>
     createdFiles =
       IF Len(chunks) = 1 THEN <<>>
       ELSE (IF flags.CombineFiles
               THEN <<Stem(flags.OutputFile) \o <<".", "t", "x", "t">>>> ELSE <<>>)
            \o NumberedNames(Len(chunks))

\* a run of three chunks with -c has succeeded
C17_Witness ==
  /\ pc = "done" /\ err = Nil
  /\ flags.CombineFiles /\ ffmpegRuns = 1
  /\ Len(chunks) = 3 /\ Len(requests) = 3
  /\ Len(createdFiles) = 4

(***************************************************************************)
(* Termination of the chunker.                                             *)
(***************************************************************************)
\* C18: for every finite text and every chunkSize > 0, splitIntoChunks
\* terminates: each loop iteration emits a non-empty chunk and strictly shortens
\* the remaining text (the last iteration emits all of it and leaves the loop),
\* also when the only whitespace within the budget is at index 0 or when there
\* is no whitespace at all.
C18_Terminates ==
  /\ [][(cpc = "loop" /\ RuneCount(inputRunes) > 0) =>
          /\ Len(splitChunks') = Len(splitChunks) + 1
          /\ RuneCount(splitChunks'[Len(splitChunks')]) >= 1
          /\ \/ /\ cpc' = "after"
                /\ splitChunks'[Len(splitChunks')] = inputRunes
             \/ /\ cpc' = "loop"
                /\ RuneCount(inputRunes') < RuneCount(inputRunes)
                /\ RuneCount(inputRunes') > 0]_vars
  /\ <>(cpc = "return")

\* splitIntoChunks has returned for a text longer than chunkSize whose only
\* whitespace is at index 0
C18_Witness ==
  /\ cpc = "return" /\ call = "splitIntoChunks"
  /\ RuneCount(text) > chunkSize
  /\ text[1] = Run(" ", 1)
  /\ \A i \in 2..Len(text) : ~IsSpace(text[i].c)
  /\ Len(result) >= 2

(***************************************************************************)
(* The requests of a run.                                                  *)
(***************************************************************************)
\* the i-th request (from 1) carries the text of chunk i and the configured
\* model, voice, format and speed
CarriesChunk(r, i) ==
  /\ i <= Len(chunks)
  /\ r.Input = chunks[i]
  /\ r.Model = flags.ModelOption
  /\ r.Voice = flags.VoiceOption
  /\ r.Format = Flat(flags.FormatOption)
  /\ r.Speed = flags.SpeedOption

\* the response to the i-th request has status 200 and its body is the whole
\* content of the file of chunk i
ResponseWritten(i) ==
  /\ "StatusCode" \in DOMAIN responses[i]
  /\ responses[i].StatusCode = 200
  /\ LET file == IF Len(chunks) > 1 THEN NumberedName(i) ELSE flags.OutputFile
     IN  Exists(file) /\ disk[file] = responses[i].Body

\* C19: in a run where every request succeeds, processChunks sends exactly one
\* request per chunk, in chunk order, request i carrying chunk i's text as input
\* together with the configured model, voice, format and speed; no chunk is sent
\* twice and request i+1 is sent only after response i has been completely
\* written to its file.
C19_OneRequestPerChunk ==
  /\ [][requests' # requests =>
          /\ requests' = Append(requests, requests'[Len(requests')])
          /\ CarriesChunk(requests'[Len(requests')], Len(requests) + 1)
          /\ \A i \in 1..Len(requests) : ResponseWritten(i)]_vars
  /\ [][(pc = "loop" /\ pc' \in {"combineFiles", "done"} /\ err' \in {Nil, "none"}) =>
          /\ Len(requests) = Len(chunks)
          /\ \A i \in 1..Len(chunks) : CarriesChunk(requests[i], i) /\ ResponseWritten(i)]_vars

\* three chunks with two different texts were sent and answered, under a rate
\* limit, with options other than the defaults
C19_Witness ==
  /\ pc = "done" /\ err = Nil
  /\ Len(chunks) = 3 /\ Len(requests) = 3
  /\ chunks[1] # chunks[3]
  /\ flags.VoiceOption = "alloy" /\ flags.SpeedOption = "1.5"
  /\ flags.RateLimit > 0
  /\ \A i \in 1..3 : ResponseWritten(i)

(***************************************************************************)
(* The destination file of a chunk and the outcome of its request.         *)
(***************************************************************************)
\* the step creates or removes the file at path, or changes its content
Changed(path) ==
  \/ Exists(path) # (path \in DOMAIN disk')
  \/ Exists(path) /\ path \in DOMAIN disk' /\ disk'[path] # disk[path]

\* C20: the destination file of a chunk is created or truncated only after the
\* transport has returned a success status for that chunk: when the request for
\* chunk k fails (transport error or non-200 status), the file at chunk k's
\* destination path is left exactly as it was before the run (absent if it was
\* absent, prior contents kept if it existed).
C20_CreatedAfterSuccess ==
  [][(pc \in {"processChunk", "tts"} /\ Changed(outputFileName)) => Answered200]_vars

(***************************************************************************)
(* When the combiner runs.                                                 *)
(***************************************************************************)
\* processChunks has returned nil: every chunk was processed (a run that was
\* cancelled or that failed has processed fewer chunks than there are)
ProcessChunksSucceeded ==
  /\ pc \in {"combineFiles", "done"}
  /\ idx = Len(chunks)
  /\ Len(requests) = Len(chunks)

\* C21: the combiner (combineFiles, hence the external tool and the cleanup) is
\* invoked if and only if more than one chunk was produced, the combine flag is
\* set and processChunks succeeded; in a single-chunk run with the combine flag
\* set, no manifest file is created, nothing is added to the ledger and nothing
\* is deleted.
C21_CombinerIffManyAndFlag ==
  /\ ffmpegRuns \in {0, 1}
  /\ (ffmpegRuns = 0) => (removed = <<>> /\ cleanupErr = Nil)
  /\ (pc = "combineFiles" \/ ffmpegRuns = 1) <=>
       (Len(chunks) > 1 /\ flags.CombineFiles /\ ProcessChunksSucceeded)
  /\ (pc = "done") => (ffmpegRuns = 1 <=>
       (Len(chunks) > 1 /\ flags.CombineFiles /\ ProcessChunksSucceeded))
  /\ (Len(chunks) = 1 /\ flags.CombineFiles) =>
       /\ textFileName = <<>>
       /\ written \subseteq {flags.OutputFile}
       /\ createdFiles = <<>>
       /\ removed = <<>>

\* a run of one chunk with -c has ended without error where the files of an
\* earlier run lie: nothing was combined and they are all still there
C21_Witness ==
  /\ pc = "done" /\ err = Nil
  /\ Len(chunks) = 1 /\ flags.CombineFiles
  /\ Len(requests) = 1
  /\ flags.InputFile # ManifestName(flags.OutputFile)
  /\ flags.OutputFile # ManifestName(flags.OutputFile)
  /\ Exists(ManifestName(flags.OutputFile))
  /\ Exists(ArtifactName(flags.OutputFile, 0, flags.FormatOption))
  /\ ffmpegRuns = 0

(***************************************************************************)
(* Filesystem errors in the loop of processChunks.                         *)
(***************************************************************************)
\* appending the manifest line (opening the manifest, writing the line) or
\* creating the destination file has failed
ManifestOrCreateFailed == failed \cap {"os.OpenFile", "file.WriteString", "os.Create"} # {}

\* C22: if appending the manifest line or creating the destination file fails
\* for chunk k, processChunks returns an error immediately: no request is sent
\* for chunk k and no later chunk is processed.
C22_FilesystemErrorAborts ==
  ManifestOrCreateFailed =>
    /\ pc = "done"
    /\ err \in {"unable to open text file: EACCES", "unable to write to text file: ENOSPC",
                "unable to create output file: EACCES"}
    /\ idx < Len(chunks)
    /\ Len(requests) = idx /\ Len(responses) = idx
    /\ IF Len(chunks) > 1
         THEN \A i \in (idx + 1)..Len(chunks) : NumberedName(i) \notin written
         ELSE flags.OutputFile \notin written
    /\ ffmpegRuns = 0

\* os.Create failed for the second of three chunks: one request was sent
C22_Witness ==
  /\ pc = "done"
  /\ "os.Create" \in failed
  /\ Len(chunks) = 3 /\ idx = 1
  /\ Len(requests) = 1
  /\ flags.CombineFiles

(***************************************************************************)
(* A run on an empty input file.                                           *)
(***************************************************************************)
\* the input file is about to be read and is empty
EmptyInput ==
  /\ pc = "readInputFile"
  /\ Exists(flags.InputFile)
  /\ disk[flags.InputFile] = <<>>

\* the input file was read and gave no chunk
NoChunks == inputRead /\ "io.ReadAll" \notin failed /\ chunks = <<>>

\* C23: for an empty input, readFileData returns zero chunks with or without
\* buffering (no chunk consisting of framing only), and the run then sends no
\* request, shows no prompt, creates no artifact or manifest file, does not
\* invoke the combiner and returns success.
C23_EmptyInputNoWork ==
  /\ [][(EmptyInput /\ pc' # pc /\ "io.ReadAll" \notin failed') =>
          (chunks' = <<>> /\ pc' = "processChunks")]_vars
  /\ [](NoChunks =>
          /\ pc \in {"processChunks", "loop", "done"}
          /\ pc = "done" => err = Nil
          /\ requests = <<>>
          /\ confirmPrompts = 0
          /\ written = {} /\ createdFiles = <<>> /\ textFileName = <<>>
          /\ ffmpegRuns = 0 /\ removed = <<>>)
  /\ [][NoChunks => disk' = disk]_vars

\* the run on an empty input file with -b and -c has returned nil
C23_Witness ==
  /\ pc = "done" /\ err = Nil
  /\ inputRead /\ chunks = <<>>
  /\ Exists(flags.InputFile) /\ disk[flags.InputFile] = <<>>
  /\ flags.BufferTextFlag /\ flags.CombineFiles
  /\ requests = <<>>

(***************************************************************************)
(* The start of mp3concat.                                                 *)
(***************************************************************************)
\* the name ends with ".mp3"
EndsWithMp3(name) ==
  /\ Len(name) >= 4
  /\ name[Len(name) - 3] = "." /\ name[Len(name) - 2] = "m"
  /\ name[Len(name) - 1] = "p" /\ name[Len(name)] = "3"

\* at least 3 arguments, every one ending with ".mp3"
Acceptable == Len(args) >= 3 /\ \A i \in DOMAIN args : EndsWithMp3(args[i])

\* C24: mp3concat starts without panicking if and only if it is given at least
\* 3 arguments and every argument ends with ".mp3" (arguments shorter than 4
\* bytes included in the rejected set); when it starts it records one entry per
\* argument in order (len(files) = fileCount = number of arguments) and does
\* nothing else.
C24_StartsIffThreeMp3 ==
  /\ [](mpc = "panic" => ~Acceptable)
  /\ [](mpc \in {"main", "exit"} =>
          /\ Acceptable
          /\ Len(mp3Files) = Len(args) /\ fileCount = Len(args)
          /\ \A i \in DOMAIN args : mp3Files[i].fileName = args[i]
          /\ stdout = <<>>)
  /\ <>(IF Acceptable THEN mpc = "exit" ELSE mpc = "panic")

\* mp3concat was started with three names that end with .mp3, the extension
\* alone among them, and has run to its end
C24_Witness ==
  /\ mpc = "exit"
  /\ Len(args) = 3
  /\ args[2] = <<".", "m", "p", "3">>
  /\ args[1] # args[2]
  /\ fileCount = 3

(***************************************************************************)
(* The paths of a run: the input file, the output path, the ledger, the    *)
(* manifest.                                                               *)
(***************************************************************************)
\* C25: the pipeline never writes to or deletes the input file: for every
\* choice of input path, output path and flags, the input file's content after
\* a run (successful or failed) equals its content before the run.  In
\* particular the manifest path "<output base>.txt" is never the input path.
C25_InputFileUntouched ==
  [][/\ Exists(flags.InputFile) => ~Changed(flags.InputFile)
     /\ flags.InputFile \notin written'
     /\ textFileName' # <<>> => textFileName' # flags.InputFile]_vars

\* C26: in a multi-chunk run with combining, the final output path differs from
\* every ledger entry (the manifest "<base>.txt" and every artifact
\* "<base>_<i>.<format>"), for every output path and format, so the cleanup
\* after a successful combine never deletes the combined output file and the
\* external tool never reads and writes the same path.
C26_OutputNotInLedger ==
  /\ (Len(chunks) > 1 /\ flags.CombineFiles) =>
        \A k \in DOMAIN createdFiles : createdFiles[k] # flags.OutputFile
  /\ \A k \in DOMAIN removed : removed[k].file # flags.OutputFile
  /\ pc = "combineFiles" => textFileName # flags.OutputFile

\* C27: the manifest handed to the combiner contains only lines written by the
\* current run: after a run that aborted at chunk k (leaving its manifest on
\* disk) followed by a second run on the same output path, the manifest of the
\* second run holds exactly the second run's lines, not the first run's lines
\* followed by the second's.
C27_ManifestOfThisRun ==
  [][(pc = "loop" /\ pc' = "rateLimiter" /\ textFileName # <<>>
        /\ textFileName # flags.InputFile) =>
        disk'[textFileName] = FromSeq(ManifestOf(idx + 1))]_vars

(***************************************************************************)
(* The ticker of a positive rate limit.                                    *)
(***************************************************************************)
\* C28: for every rate limit r > 0 the tick interval computed as
\* time.Minute / r is strictly positive, so a ticker exists and every wait on
\* the gate eventually receives a permit: processChunks never blocks forever on
\* the rate limiter, whatever the value of r.
C28_TickerForEveryRate ==
  Waiting => (Interval(flags.RateLimit) > 0 /\ config.rateLimiter)

(***************************************************************************)
(* The ledger and the files of a run.                                      *)
(***************************************************************************)
\* the names recorded in the ledger
Recorded == {createdFiles[k] : k \in DOMAIN createdFiles}

\* C29: in a multi-chunk run, every file the dispatcher creates (the manifest
\* and each artifact) has its name recorded in the ledger before the file is
\* created: at every point of processChunks, and when it returns with success or
\* with an error, the set of files created by the run is a subset of the ledger.
C29_CreatedSubsetOfLedger ==
  /\ [](Len(chunks) > 1 => written \subseteq Recorded)
  /\ [][Len(chunks) > 1 => (written' \ written) \subseteq Recorded]_vars

\* with -c, the request of the second of three chunks has failed: the
\* manifest and two artifacts were created, and the ledger names the three
C29_Witness ==
  /\ pc = "done" /\ "client.Do" \in failed
  /\ Len(chunks) = 3 /\ Len(requests) = 2
  /\ flags.CombineFiles
  /\ Cardinality(written) = 3
  /\ Len(createdFiles) = 3

(***************************************************************************)
(* The prompts for the API key.                                            *)
(***************************************************************************)
\* C30: in a single run the user is prompted for the API key (writeNewConfig)
\* at most once, for every combination of flags and every initial state of the
\* config file (missing, present with a key, present with an empty key).
C30_PromptedAtMostOnce == keyPrompts <= 1

====
